---- MODULE Spec2Model ----
(***************************************************************************)
(* Model of the two operational tools of devops-automation-scripts:        *)
(*   eks_resource_cleanup.py  (specification Spec)                         *)
(*   aws_cost_report.py       (specification CostSpec)                     *)
(* Money is held in integer cents, percentages in hundredths of a percent  *)
(* (thresholds) and tenths of a percent (the rounded change_pct).          *)
(***************************************************************************)
EXTENDS Integers, Sequences, FiniteSets, TLC

\* ------------------------------------------------------------------------
\* Bounds
\* ------------------------------------------------------------------------
MaxPods == 2
MaxJobs == 2
MaxGroups == 2

VARIABLES
    pc,          \* position of main() of eks_resource_cleanup.py
    args,        \* parsed command line
    report,      \* the CleanupReport
    data,        \* local listing of the scan function in progress
    i,           \* index of the item of the outer for loop
    j,           \* index of the container status of the inner for loop
    commands,    \* kubectl delete command lines run so far, with their result
    destroyed,   \* resources really removed from the cluster
    printed,     \* print_report has run
    exitCode,    \* process exit status, -1 while running
    cpc,            \* position of main() of aws_cost_report.py
    threshold_pct,  \* args.anomaly_threshold, in hundredths of a percent
    current_costs,  \* dict service -> cost (cents), in insertion order
    previous_costs, \* dict service -> cost (cents), in insertion order
    anomalies,      \* result of detect_anomalies
    fetches,        \* periods for which get_cost_and_usage was called
    costPrinted,    \* the console report was printed
    costExit        \* process exit status, -1 while running

costVars == <<cpc, threshold_pct, current_costs, previous_costs, anomalies,
              fetches, costPrinted, costExit>>

eksVars == <<pc, args, report, data, i, j, commands, destroyed, printed, exitCode>>

\* ------------------------------------------------------------------------
\* eks_resource_cleanup.py : inputs
\* ------------------------------------------------------------------------
Namespace == "default"

SeqsUpTo(S, n) == UNION { [1..k -> S] : k \in 0..n }

\* waiting.reason / restartCount of the container statuses met in listings
Healthy == [reason |-> "", restartCount |-> 0]

CrashLoop == [reason |-> "CrashLoopBackOff", restartCount |-> 8]

ImagePull == [reason |-> "ImagePullBackOff", restartCount |-> 0]

\* the containerStatuses lists of the pods met in listings
PodKinds ==
    { <<>>, <<Healthy>>, <<CrashLoop>>, <<Healthy, ImagePull>>, <<CrashLoop, ImagePull>> }

\* a pod listing: item k is pod "k" of namespace "default"
PodListings ==
    { [k \in 1..Len(kinds) |->
          [namespace |-> Namespace, name |-> ToString(k), containerStatuses |-> kinds[k]]]
      : kinds \in SeqsUpTo(PodKinds, MaxPods) }

\* the clock of the run, in hours since 2026-01-01T00:00:00Z
Now == 7355

\* datetime.fromisoformat(s.replace("Z", "+00:00")), in hours since 2026-01-01;
\* ValueError is -1
ValueError == -1

FromIsoFormat(s) ==
    CASE s = "2026-10-01T00:00:00Z" -> 6552
      [] s = "2026-11-03T10:00:00Z" -> 7354
      [] OTHER -> ValueError

JobKinds ==
    { [conditions |-> <<"Complete">>, creationTimestamp |-> "2026-10-01T00:00:00Z"],
      [conditions |-> <<"Failed">>,   creationTimestamp |-> "2026-11-03T10:00:00Z"],
      [conditions |-> <<>>,           creationTimestamp |-> "2026-10-01T00:00:00Z"],
      [conditions |-> <<"Complete">>, creationTimestamp |-> ""] }

JobListings ==
    { [k \in 1..Len(kinds) |->
          [namespace |-> Namespace, name |-> ToString(k),
           conditions |-> kinds[k].conditions,
           creationTimestamp |-> kinds[k].creationTimestamp]]
      : kinds \in SeqsUpTo(JobKinds, MaxJobs) }

\* results of subprocess.run(..., check=True) on kubectl delete
DeleteOutcomes == {"ok", "CalledProcessError"}

\* ------------------------------------------------------------------------
\* eks_resource_cleanup.py : helpers
\* ------------------------------------------------------------------------
problem_states == {"CrashLoopBackOff", "Error", "OOMKilled", "ImagePullBackOff"}

RestartFloor == 5

\* the condition of the if statement of find_crashloop_pods
IsProblemContainer(reason, restart_count) ==
    \/ reason \in problem_states
    \/ (reason = "CrashLoopBackOff" /\ restart_count > RestartFloor)

\* the `if delete:` gates of the two scan functions
PodDeleteAlways == TRUE

PodDeleteRequested == args.delete_crashloop

JobDeleteRequested == args.delete_jobs

\* kubectl_delete: the command line it builds
KubectlDeleteCmdNoFlag(resource_type, name, namespace, dry_run) ==
    <<"kubectl", "delete", resource_type, name, "-n", namespace>>

KubectlDeleteCmd(resource_type, name, namespace, dry_run) ==
    LET cmd == <<"kubectl", "delete", resource_type, name, "-n", namespace>>
    IN  IF dry_run THEN Append(cmd, "--dry-run=client") ELSE cmd

\* kubectl_delete: what it hands to its caller for an outcome of subprocess.run
\* ("True", "False", or "raise" when the exception leaves the function)
KubectlDeleteReturnRaise(outcome) ==
    IF outcome = "ok" THEN "True" ELSE "raise"

KubectlDeleteReturn(outcome) ==
    IF outcome = "ok" THEN "True" ELSE "False"

IsDryRunCmd(cmd) == \E k \in 1..Len(cmd) : cmd[k] = "--dry-run=client"

\* effect of one kubectl delete on the cluster and on the command history
RunDelete(cmd, outcome) ==
    /\ commands' = Append(commands, [cmd |-> cmd, outcome |-> outcome])
    /\ destroyed' = IF outcome = "ok" /\ ~IsDryRunCmd(cmd)
                    THEN destroyed \cup {<<cmd[3], cmd[6], cmd[4]>>}
                    ELSE destroyed

EmptyReport ==
    [crashloop_pods |-> <<>>, stale_namespaces |-> <<>>, completed_jobs |-> <<>>,
     actions_taken |-> <<>>, errors |-> <<>>]

JobMaxAgeHours == 24

\* aws_cost_report.py not started
CostIdle ==
    /\ cpc = "idle"
    /\ threshold_pct = 0
    /\ current_costs = <<>>
    /\ previous_costs = <<>>
    /\ anomalies = <<>>
    /\ fetches = <<>>
    /\ costPrinted = FALSE
    /\ costExit = -1

\* ------------------------------------------------------------------------
\* eks_resource_cleanup.py : main
\* ------------------------------------------------------------------------
Init ==
    /\ pc = "update_eks_kubeconfig"
    /\ args \in [dry_run : BOOLEAN, delete_crashloop : BOOLEAN,
                 delete_jobs : BOOLEAN, job_max_age_hours : {JobMaxAgeHours}]
    /\ report = EmptyReport
    /\ data = <<>>
    /\ i = 0
    /\ j = 0
    /\ commands = <<>>
    /\ destroyed = {}
    /\ printed = FALSE
    /\ exitCode = -1
    /\ CostIdle

BootstrapExitCode == 1

UpdateKubeconfigOk ==
    /\ pc = "update_eks_kubeconfig"
    /\ pc' = "find_crashloop_pods"
    /\ UNCHANGED <<costVars, args, report, data, i, j, commands, destroyed, printed, exitCode>>

\* CalledProcessError from aws eks update-kubeconfig: sys.exit(1)
UpdateKubeconfigFail ==
    /\ pc = "update_eks_kubeconfig"
    /\ pc' = "done"
    /\ exitCode' = BootstrapExitCode
    /\ UNCHANGED <<costVars, args, report, data, i, j, commands, destroyed, printed>>

\* kubectl get pods returned a listing
ListPodsOk ==
    /\ pc = "find_crashloop_pods"
    /\ \E listing \in PodListings : data' = listing
    /\ i' = 1
    /\ j' = 0
    /\ pc' = "pod_loop"
    /\ UNCHANGED <<costVars, args, report, commands, destroyed, printed, exitCode>>

\* kubectl returned None (command failed or output was not JSON)
ListPodsFail ==
    /\ pc = "find_crashloop_pods"
    /\ report' = [report EXCEPT !.errors = Append(@, "Failed to list pods")]
    /\ pc' = "find_completed_jobs"
    /\ UNCHANGED <<costVars, args, data, i, j, commands, destroyed, printed, exitCode>>

\* head of the outer for loop: bind the pod, start on its container statuses
PodLoopEnter ==
    /\ pc = "pod_loop"
    /\ i <= Len(data)
    /\ j = 0
    /\ j' = 1
    /\ UNCHANGED <<costVars, pc, args, report, data, i, commands, destroyed, printed, exitCode>>

\* the inner for loop is exhausted: next pod
PodLoopNext ==
    /\ pc = "pod_loop"
    /\ i <= Len(data)
    /\ j > Len(data[i].containerStatuses)
    /\ i' = i + 1
    /\ j' = 0
    /\ UNCHANGED <<costVars, pc, args, report, data, commands, destroyed, printed, exitCode>>

PodEntry(pod, k) ==
    [namespace |-> pod.namespace, pod |-> pod.name, container |-> k,
     reason |-> pod.containerStatuses[k].reason,
     restarts |-> pod.containerStatuses[k].restartCount]

AtContainer ==
    /\ pc = "pod_loop"
    /\ i <= Len(data)
    /\ j >= 1
    /\ j <= Len(data[i].containerStatuses)

\* a container status that is not a problem: nothing recorded
ContainerHealthy ==
    /\ AtContainer
    /\ ~IsProblemContainer(data[i].containerStatuses[j].reason,
                           data[i].containerStatuses[j].restartCount)
    /\ j' = j + 1
    /\ UNCHANGED <<costVars, pc, args, report, data, i, commands, destroyed, printed, exitCode>>

\* a problem container, deletion not requested
ContainerFlagged ==
    /\ AtContainer
    /\ IsProblemContainer(data[i].containerStatuses[j].reason,
                          data[i].containerStatuses[j].restartCount)
    /\ ~PodDeleteRequested
    /\ report' = [report EXCEPT !.crashloop_pods = Append(@, PodEntry(data[i], j))]
    /\ j' = j + 1
    /\ UNCHANGED <<costVars, pc, args, data, i, commands, destroyed, printed, exitCode>>

\* a problem container, deletion requested: entry appended, kubectl_delete called
ContainerDelete(outcome) ==
    /\ AtContainer
    /\ IsProblemContainer(data[i].containerStatuses[j].reason,
                          data[i].containerStatuses[j].restartCount)
    /\ PodDeleteRequested
    /\ LET pod == data[i]
           entry == PodEntry(pod, j)
           cmd == KubectlDeleteCmd("pod", pod.name, pod.namespace, args.dry_run)
           success == KubectlDeleteReturn(outcome)
           found == [report EXCEPT !.crashloop_pods = Append(@, entry)]
       IN  /\ RunDelete(cmd, outcome)
           /\ IF success = "raise"
              THEN \* an exception leaving kubectl_delete ends the process
                   /\ report' = found
                   /\ pc' = "done"
                   /\ exitCode' = 1
                   /\ UNCHANGED j
              ELSE /\ report' = IF success = "True"
                                THEN [found EXCEPT !.actions_taken =
                                        Append(@, <<"Deleted pod", pod.namespace, pod.name, entry.reason>>)]
                                ELSE found
                   /\ j' = j + 1
                   /\ UNCHANGED <<pc, exitCode>>
    /\ UNCHANGED <<costVars, args, data, i, printed>>

ContainerDeleteOk == ContainerDelete("ok")

ContainerDeleteFail == ContainerDelete("CalledProcessError")

\* the outer for loop is exhausted: find_crashloop_pods returns
PodLoopExit ==
    /\ pc = "pod_loop"
    /\ i > Len(data)
    /\ pc' = "find_completed_jobs"
    /\ data' = <<>>
    /\ i' = 0
    /\ j' = 0
    /\ UNCHANGED <<costVars, args, report, commands, destroyed, printed, exitCode>>

ListJobsOk ==
    /\ pc = "find_completed_jobs"
    /\ \E listing \in JobListings : data' = listing
    /\ i' = 1
    /\ pc' = "job_loop"
    /\ UNCHANGED <<costVars, args, report, j, commands, destroyed, printed, exitCode>>

ListJobsFail ==
    /\ pc = "find_completed_jobs"
    /\ report' = [report EXCEPT !.errors = Append(@, "Failed to list jobs")]
    /\ pc' = "print_report"
    /\ UNCHANGED <<costVars, args, data, i, j, commands, destroyed, printed, exitCode>>

cutoff == Now - args.job_max_age_hours

is_complete(job) ==
    \E k \in 1..Len(job.conditions) : job.conditions[k] \in {"Complete", "Failed"}

IsStaleJob(job) ==
    /\ FromIsoFormat(job.creationTimestamp) # ValueError
    /\ is_complete(job)
    /\ FromIsoFormat(job.creationTimestamp) < cutoff

JobEntry(job) ==
    [namespace |-> job.namespace, job |-> job.name, created |-> job.creationTimestamp]

AtJob ==
    /\ pc = "job_loop"
    /\ i <= Len(data)

\* malformed timestamp (continue) or a job that is not complete or not old
JobSkipped ==
    /\ AtJob
    /\ ~IsStaleJob(data[i])
    /\ i' = i + 1
    /\ UNCHANGED <<costVars, pc, args, report, data, j, commands, destroyed, printed, exitCode>>

JobFlagged ==
    /\ AtJob
    /\ IsStaleJob(data[i])
    /\ ~JobDeleteRequested
    /\ report' = [report EXCEPT !.completed_jobs = Append(@, JobEntry(data[i]))]
    /\ i' = i + 1
    /\ UNCHANGED <<costVars, pc, args, data, j, commands, destroyed, printed, exitCode>>

JobDelete(outcome) ==
    /\ AtJob
    /\ IsStaleJob(data[i])
    /\ JobDeleteRequested
    /\ LET job == data[i]
           cmd == KubectlDeleteCmd("job", job.name, job.namespace, args.dry_run)
           success == KubectlDeleteReturn(outcome)
           found == [report EXCEPT !.completed_jobs = Append(@, JobEntry(job))]
       IN  /\ RunDelete(cmd, outcome)
           /\ IF success = "raise"
              THEN /\ report' = found
                   /\ pc' = "done"
                   /\ exitCode' = 1
                   /\ UNCHANGED i
              ELSE /\ report' = IF success = "True"
                                THEN [found EXCEPT !.actions_taken =
                                        Append(@, <<"Deleted job", job.namespace, job.name>>)]
                                ELSE found
                   /\ i' = i + 1
                   /\ UNCHANGED <<pc, exitCode>>
    /\ UNCHANGED <<costVars, args, data, j, printed>>

JobDeleteOk == JobDelete("ok")

JobDeleteFail == JobDelete("CalledProcessError")

JobLoopExit ==
    /\ pc = "job_loop"
    /\ i > Len(data)
    /\ pc' = "print_report"
    /\ data' = <<>>
    /\ i' = 0
    /\ UNCHANGED <<costVars, args, report, j, commands, destroyed, printed, exitCode>>

PrintReport ==
    /\ pc = "print_report"
    /\ printed' = TRUE
    /\ pc' = "exit_check"
    /\ UNCHANGED <<costVars, args, report, data, i, j, commands, destroyed, exitCode>>

AttentionExitCode == 1

\* the condition of the final if statement of main
ProblemsFound == report.crashloop_pods # <<>> \/ report.errors # <<>>

MainExit ==
    /\ pc = "exit_check"
    /\ exitCode' = IF ProblemsFound THEN AttentionExitCode ELSE 0
    /\ pc' = "done"
    /\ UNCHANGED <<costVars, args, report, data, i, j, commands, destroyed, printed>>

Next ==
    \/ UpdateKubeconfigOk
    \/ UpdateKubeconfigFail
    \/ ListPodsOk
    \/ ListPodsFail
    \/ PodLoopEnter
    \/ PodLoopNext
    \/ ContainerHealthy
    \/ ContainerFlagged
    \/ ContainerDeleteOk
    \/ ContainerDeleteFail
    \/ PodLoopExit
    \/ ListJobsOk
    \/ ListJobsFail
    \/ JobSkipped
    \/ JobFlagged
    \/ JobDeleteOk
    \/ JobDeleteFail
    \/ JobLoopExit
    \/ PrintReport
    \/ MainExit

vars == <<eksVars, costVars>>

Spec == Init /\ [][Next]_vars

\* ------------------------------------------------------------------------
\* aws_cost_report.py : inputs
\* ------------------------------------------------------------------------
Services == {"EC2", "Lambda", "S3"}

\* UnblendedCost amounts of the current period, in tenths of a cent
CurrentAmounts == {5, 5000, 15004, 100000, 125040}

\* UnblendedCost amounts of the previous period, in tenths of a cent
PreviousAmounts == {15004, 100000}

\* --anomaly-threshold values, in hundredths of a percent
Thresholds == {-5000, 0, 2500, 2504, 5000}

RECURSIVE DistinctKeys(_)
DistinctKeys(groups) ==
    IF groups = <<>> THEN TRUE
    ELSE /\ \A k \in 2..Len(groups) : groups[k].Keys # groups[1].Keys
         /\ DistinctKeys(Tail(groups))

\* ResultsByTime[0].Groups of a response: Cost Explorer groups by service
Responses(amounts) ==
    { g \in SeqsUpTo([Keys : Services, Amount : amounts], MaxGroups) : DistinctKeys(g) }

\* eks_resource_cleanup.py not started
EksIdle ==
    /\ pc = "idle"
    /\ args = [dry_run |-> FALSE, delete_crashloop |-> FALSE,
               delete_jobs |-> FALSE, job_max_age_hours |-> JobMaxAgeHours]
    /\ report = EmptyReport
    /\ data = <<>>
    /\ i = 0
    /\ j = 0
    /\ commands = <<>>
    /\ destroyed = {}
    /\ printed = FALSE
    /\ exitCode = -1

\* ------------------------------------------------------------------------
\* aws_cost_report.py : helpers
\* ------------------------------------------------------------------------
\* round(n / d, 0) for d > 0: to nearest, ties to even
RoundHalfEven(n, d) ==
    LET q == n \div d
        r == n % d
    IN  IF 2 * r > d THEN q + 1
        ELSE IF 2 * r < d THEN q
        ELSE IF q % 2 = 0 THEN q ELSE q + 1

HasKey(dict, key) == \E k \in 1..Len(dict) : dict[k].service = key

\* dict.get(key, default)
Get(dict, key, default) ==
    IF HasKey(dict, key)
    THEN dict[CHOOSE k \in 1..Len(dict) : dict[k].service = key].cost
    ELSE default

\* dict[key] = value: a new key goes last, a known key keeps its place
SetItem(dict, key, value) ==
    IF HasKey(dict, key)
    THEN [k \in 1..Len(dict) |->
            IF dict[k].service = key THEN [service |-> key, cost |-> value] ELSE dict[k]]
    ELSE Append(dict, [service |-> key, cost |-> value])

\* sorted(costs.items(), key=lambda x: x[1], reverse=True): stable, descending
RECURSIVE InsertByCost(_, _)
InsertByCost(sorted, x) ==
    IF sorted = <<>> THEN <<x>>
    ELSE IF Head(sorted).cost >= x.cost
         THEN <<Head(sorted)>> \o InsertByCost(Tail(sorted), x)
         ELSE <<x>> \o sorted

RECURSIVE SortByCost(_)
SortByCost(items) ==
    IF items = <<>> THEN <<>>
    ELSE InsertByCost(SortByCost(SubSeq(items, 1, Len(items) - 1)), items[Len(items)])

NoiseFloor == 10

RECURSIVE CollectCosts(_)
CollectCosts(groups) ==
    IF groups = <<>> THEN <<>>
    ELSE LET costs == CollectCosts(SubSeq(groups, 1, Len(groups) - 1))
             group == groups[Len(groups)]
         IN  IF group.Amount > NoiseFloor
             THEN SetItem(costs, group.Keys, RoundHalfEven(group.Amount, 10))
             ELSE costs

get_monthly_cost_by_service(groups) == SortByCost(CollectCosts(groups))

NewServiceMinimum == 1000

NewServiceChangePct == 1000

\* change_pct >= threshold_pct, for previous_cost # 0
ExceedsThresholdAnyIncrease(current_cost, previous_cost, threshold) ==
    current_cost >= previous_cost

ExceedsThreshold(current_cost, previous_cost, threshold) ==
    (current_cost - previous_cost) * 10000 >= threshold * previous_cost

\* round(change_pct, 1), in tenths of a percent
RoundedChangePct(current_cost, previous_cost) ==
    RoundHalfEven((current_cost - previous_cost) * 1000, previous_cost)

\* sorted(anomalies, key=lambda x: x["change_pct"], reverse=True)
RECURSIVE InsertByChange(_, _)
InsertByChange(sorted, x) ==
    IF sorted = <<>> THEN <<x>>
    ELSE IF Head(sorted).change_pct >= x.change_pct
         THEN <<Head(sorted)>> \o InsertByChange(Tail(sorted), x)
         ELSE <<x>> \o sorted

RECURSIVE InsertByChangeFirst(_, _)
InsertByChangeFirst(sorted, x) ==
    IF sorted = <<>> THEN <<x>>
    ELSE IF Head(sorted).change_pct > x.change_pct
         THEN <<Head(sorted)>> \o InsertByChangeFirst(Tail(sorted), x)
         ELSE <<x>> \o sorted

RECURSIVE SortByChangeUnstable(_)
SortByChangeUnstable(items) ==
    IF items = <<>> THEN <<>>
    ELSE InsertByChangeFirst(SortByChangeUnstable(SubSeq(items, 1, Len(items) - 1)),
                             items[Len(items)])

RECURSIVE SortByChange(_)
SortByChange(items) ==
    IF items = <<>> THEN <<>>
    ELSE InsertByChange(SortByChange(SubSeq(items, 1, Len(items) - 1)), items[Len(items)])

\* the for loop of detect_anomalies over the first n items of current
RECURSIVE FlagServices(_, _, _, _)
FlagServices(current, previous, threshold, n) ==
    IF n = 0 THEN <<>>
    ELSE LET found == FlagServices(current, previous, threshold, n - 1)
             service == current[n].service
             current_cost == current[n].cost
             previous_cost == Get(previous, service, 0)
         IN  IF previous_cost = 0
             THEN IF current_cost > NewServiceMinimum
                  THEN Append(found,
                         [service |-> service, current |-> current_cost,
                          previous |-> previous_cost,
                          change_pct |-> NewServiceChangePct,
                          reason |-> <<"New service with spend this month">>])
                  ELSE found
             ELSE IF ExceedsThreshold(current_cost, previous_cost, threshold)
                  THEN Append(found,
                         [service |-> service, current |-> current_cost,
                          previous |-> previous_cost,
                          change_pct |-> RoundedChangePct(current_cost, previous_cost),
                          reason |-> <<"Cost increased by",
                                       RoundedChangePct(current_cost, previous_cost),
                                       "% vs last month">>])
                  ELSE found

detect_anomalies(current, previous, threshold) ==
    SortByChange(FlagServices(current, previous, threshold, Len(current)))

\* ------------------------------------------------------------------------
\* aws_cost_report.py : main
\* ------------------------------------------------------------------------
CostInit ==
    /\ cpc = "fetch_current"
    /\ threshold_pct \in Thresholds
    /\ current_costs = <<>>
    /\ previous_costs = <<>>
    /\ anomalies = <<>>
    /\ fetches = <<>>
    /\ costPrinted = FALSE
    /\ costExit = -1
    /\ EksIdle

FetchCurrentOk ==
    /\ cpc = "fetch_current"
    /\ \E groups \in Responses(CurrentAmounts) :
          current_costs' = get_monthly_cost_by_service(groups)
    /\ fetches' = Append(fetches, "current")
    /\ cpc' = "fetch_previous"
    /\ UNCHANGED <<eksVars, threshold_pct, previous_costs, anomalies, costPrinted, costExit>>

\* get_cost_and_usage raises: nothing in main catches it, the process ends
\* with a traceback
FetchCurrentFail ==
    /\ cpc = "fetch_current"
    /\ fetches' = Append(fetches, "current")
    /\ cpc' = "done"
    /\ costExit' = 1
    /\ UNCHANGED <<eksVars, threshold_pct, current_costs, previous_costs, anomalies, costPrinted>>

FetchPreviousOk ==
    /\ cpc = "fetch_previous"
    /\ \E groups \in Responses(PreviousAmounts) :
          previous_costs' = get_monthly_cost_by_service(groups)
    /\ fetches' = Append(fetches, "previous")
    /\ cpc' = "detect_anomalies"
    /\ UNCHANGED <<eksVars, threshold_pct, current_costs, anomalies, costPrinted, costExit>>

FetchPreviousFail ==
    /\ cpc = "fetch_previous"
    /\ fetches' = Append(fetches, "previous")
    /\ cpc' = "done"
    /\ costExit' = 1
    /\ UNCHANGED <<eksVars, threshold_pct, current_costs, previous_costs, anomalies, costPrinted>>

DetectAnomalies ==
    /\ cpc = "detect_anomalies"
    /\ anomalies' = detect_anomalies(current_costs, previous_costs, threshold_pct)
    /\ cpc' = "print_report"
    /\ UNCHANGED <<eksVars, threshold_pct, current_costs, previous_costs, fetches, costPrinted, costExit>>

CostPrintReport ==
    /\ cpc = "print_report"
    /\ costPrinted' = TRUE
    /\ cpc' = "post_to_slack"
    /\ UNCHANGED <<eksVars, threshold_pct, current_costs, previous_costs, anomalies, fetches, costExit>>

\* post_to_slack is best effort, the warning is logged, main returns
CostMainReturn ==
    /\ cpc = "post_to_slack"
    /\ cpc' = "done"
    /\ costExit' = 0
    /\ UNCHANGED <<eksVars, threshold_pct, current_costs, previous_costs, anomalies, fetches, costPrinted>>

CostNext ==
    \/ FetchCurrentOk
    \/ FetchCurrentFail
    \/ FetchPreviousOk
    \/ FetchPreviousFail
    \/ DetectAnomalies
    \/ CostPrintReport
    \/ CostMainReturn

CostSpec == CostInit /\ [][CostNext]_vars

\* ------------------------------------------------------------------------
\* Properties of eks_resource_cleanup.py (specification Spec)
\* ------------------------------------------------------------------------
IsPodCommand(c) == c.cmd[3] = "pod"

IsJobCommand(c) == c.cmd[3] = "job"

PodCommands == SelectSeq(commands, IsPodCommand)

JobCommands == SelectSeq(commands, IsJobCommand)

\* C1: for each resource kind, kubectl_delete is invoked exactly once per
\* Finding of that kind when deletion of that kind was requested and never
\* otherwise, and the k-th delete of a kind targets the k-th Finding of that
\* kind in the report (no delete for a resource that is not a Finding).
C1_DeleteOncePerFinding ==
    /\ Len(PodCommands) =
          IF args.delete_crashloop THEN Len(report.crashloop_pods) ELSE 0
    /\ Len(JobCommands) =
          IF args.delete_jobs THEN Len(report.completed_jobs) ELSE 0
    /\ \A k \in 1..Len(PodCommands) :
          /\ PodCommands[k].cmd[4] = report.crashloop_pods[k].pod
          /\ PodCommands[k].cmd[6] = report.crashloop_pods[k].namespace
    /\ \A k \in 1..Len(JobCommands) :
          /\ JobCommands[k].cmd[4] = report.completed_jobs[k].job
          /\ JobCommands[k].cmd[6] = report.completed_jobs[k].namespace

C1_Witness ==
    /\ pc = "done"
    /\ printed
    /\ args.delete_crashloop
    /\ ~args.delete_jobs
    /\ Len(report.crashloop_pods) >= 2
    /\ Len(report.completed_jobs) >= 1
    /\ Len(commands) = Len(report.crashloop_pods)

\* C2 (as claimed): when the run has printed its report, the number of
\* recorded remediation outcomes (report.actions_taken) equals the number of
\* Findings of the kinds for which deletion was requested.
C2_OutcomePerFinding ==
    (pc = "done" /\ printed) =>
        Len(report.actions_taken) =
            (IF args.delete_crashloop THEN Len(report.crashloop_pods) ELSE 0)
          + (IF args.delete_jobs THEN Len(report.completed_jobs) ELSE 0)

\* C3 (as claimed): the process exits non-zero iff the final report holds at
\* least one Finding of any kind or at least one source error.
C3_ExitIffAttentionRequired ==
    (pc = "done" /\ printed) =>
        ((exitCode # 0) <=>
            (\/ report.crashloop_pods # <<>>
             \/ report.completed_jobs # <<>>
             \/ report.errors # <<>>))

\* C4: in a dry run every kubectl delete command line carries
\* --dry-run=client and nothing is removed from the cluster, whatever the
\* delete flags and the Findings; the command is still run once per Finding
\* of a kind whose deletion was requested.
C4_DryRunNeverDestroys ==
    args.dry_run =>
        /\ \A k \in 1..Len(commands) : IsDryRunCmd(commands[k].cmd)
        /\ destroyed = {}
        /\ Len(commands) =
              (IF args.delete_crashloop THEN Len(report.crashloop_pods) ELSE 0)
            + (IF args.delete_jobs THEN Len(report.completed_jobs) ELSE 0)

C4_Witness ==
    /\ pc = "done"
    /\ args.dry_run
    /\ args.delete_crashloop
    /\ args.delete_jobs
    /\ Len(PodCommands) >= 1
    /\ Len(JobCommands) >= 1
    /\ \E k \in 1..Len(commands) : commands[k].outcome = "ok"

\* the Findings of the first n container statuses of a pod
RECURSIVE ContainerFindings(_, _)
ContainerFindings(pod, n) ==
    IF n = 0 THEN <<>>
    ELSE LET found == ContainerFindings(pod, n - 1)
         IN  IF IsProblemContainer(pod.containerStatuses[n].reason,
                                   pod.containerStatuses[n].restartCount)
             THEN Append(found, PodEntry(pod, n))
             ELSE found

\* the Findings of the first n pods of a listing
RECURSIVE PodFindings(_, _)
PodFindings(listing, n) ==
    IF n = 0 THEN <<>>
    ELSE PodFindings(listing, n - 1)
         \o ContainerFindings(listing[n], Len(listing[n].containerStatuses))

\* the Findings of the first n jobs of a listing
RECURSIVE JobFindings(_, _)
JobFindings(listing, n) ==
    IF n = 0 THEN <<>>
    ELSE LET found == JobFindings(listing, n - 1)
         IN  IF IsStaleJob(listing[n]) THEN Append(found, JobEntry(listing[n])) ELSE found

\* C5: a failing kubectl delete does not stop the scan: while a listing is
\* scanned the report holds the Finding of every record passed so far, a
\* delete was attempted for each when deletion is requested, whatever the
\* outcomes of the earlier deletes; and a run in which a delete was attempted
\* always ends by printing its report (the failure never terminates the run).
C5_FailedDeleteDoesNotStopScan ==
    /\ pc = "pod_loop" =>
          /\ report.crashloop_pods =
                PodFindings(data, i - 1)
                \o (IF i <= Len(data) /\ j >= 1
                    THEN ContainerFindings(data[i], j - 1) ELSE <<>>)
          /\ args.delete_crashloop => Len(PodCommands) = Len(report.crashloop_pods)
    /\ pc = "job_loop" =>
          /\ report.completed_jobs = JobFindings(data, i - 1)
          /\ args.delete_jobs => Len(JobCommands) = Len(report.completed_jobs)
    /\ (pc = "done" /\ commands # <<>>) => printed
    /\ (pc \notin {"done", "idle"}) => exitCode = -1

C5_Witness ==
    /\ pc = "pod_loop"
    /\ i > Len(data)
    /\ Len(commands) >= 2
    /\ commands[1].outcome = "CalledProcessError"
    /\ commands[2].outcome = "ok"
    /\ Len(report.crashloop_pods) >= 2

\* C7 (as claimed): a run that ends before a report is produced (bootstrap
\* failure) exits with a non-zero code distinct from the code of an
\* attention-required run.
C7_BootstrapExitCodeDistinct ==
    (pc = "done" /\ ~printed) => (exitCode # 0 /\ exitCode # AttentionExitCode)

\* ------------------------------------------------------------------------
\* Properties of aws_cost_report.py (specification CostSpec)
\* ------------------------------------------------------------------------
Detected == cpc \in {"print_report", "post_to_slack"} \/ (cpc = "done" /\ costPrinted)

\* C6 (as claimed): a failed fetch of one period is recorded and does not
\* prevent the fetch of the other period, and the run still produces its
\* report.
C6_FetchFailureDoesNotAbort ==
    cpc = "done" => (costPrinted /\ Len(fetches) = 2)

\* C8 (as claimed): a key present in both snapshots with equal values never
\* produces a Finding, for every threshold.
C8_ZeroChangeNeverFlagged ==
    Detected =>
        \A k \in 1..Len(anomalies) :
            ~(/\ HasKey(previous_costs, anomalies[k].service)
              /\ Get(previous_costs, anomalies[k].service, 0) = anomalies[k].current)

\* C9 (as claimed): the change_pct stored in every Finding that is not a
\* new-resource Finding is >= the threshold; new-resource Findings carry 100.0.
C9_StoredChangeAtLeastThreshold ==
    Detected =>
        \A k \in 1..Len(anomalies) :
            IF anomalies[k].previous = 0
            THEN anomalies[k].change_pct = 1000
            ELSE anomalies[k].change_pct * 10 >= threshold_pct

\* C9 (amended): for every Finding that is not a new-resource Finding the
\* percent change before rounding is >= the threshold and the stored
\* change_pct is that value rounded to one decimal, hence no more than 0.05
\* below the threshold; new-resource Findings carry exactly 100.0.
C9_UnroundedChangeAtLeastThreshold ==
    Detected =>
        \A k \in 1..Len(anomalies) :
            LET a == anomalies[k]
            IN  IF a.previous = 0
                THEN a.change_pct = 1000
                ELSE /\ (a.current - a.previous) * 10000 >= threshold_pct * a.previous
                     /\ a.change_pct * 10 >= threshold_pct - 5
                     /\ (a.change_pct * a.previous - (a.current - a.previous) * 1000) * 2
                            <= a.previous
                     /\ ((a.current - a.previous) * 1000 - a.change_pct * a.previous) * 2
                            <= a.previous

C9_Witness ==
    /\ Detected
    /\ threshold_pct = 2504
    /\ \E k \in 1..Len(anomalies) :
          /\ anomalies[k].previous # 0
          /\ anomalies[k].change_pct = 250
    /\ \E k \in 1..Len(anomalies) : anomalies[k].previous = 0

PositionInCurrent(service) ==
    CHOOSE k \in 1..Len(current_costs) : current_costs[k].service = service

\* C10: the list returned by detect_anomalies is in descending order of
\* change_pct, and Findings with equal change_pct are in the order of their
\* keys in the current snapshot.
C10_SortedDescendingStable ==
    Detected =>
        \A m, n \in 1..Len(anomalies) :
            m < n =>
                /\ anomalies[m].change_pct >= anomalies[n].change_pct
                /\ anomalies[m].change_pct = anomalies[n].change_pct =>
                      PositionInCurrent(anomalies[m].service)
                          < PositionInCurrent(anomalies[n].service)

C10_Witness ==
    /\ Detected
    /\ Len(anomalies) = 2
    /\ anomalies[1].change_pct = anomalies[2].change_pct
    /\ anomalies[1].current > anomalies[2].current

====
